---- MODULE Spec2Model ----
(***************************************************************************)
(* Transaction and ledger consistency engine of the wallet service.        *)
(*                                                                         *)
(* The store holds accounts, wallets, transactions and ledger entries.     *)
(* Every request is handled by a stateless handler; a unit of work         *)
(* (prisma.$transaction) reads a snapshot of the rows it needs and then    *)
(* writes.  A unit of work is modelled in two steps: the snapshot read     *)
(* with the guards evaluated on it, and the write phase, which the store   *)
(* applies atomically against the rows committed at that moment: a         *)
(* conditional update that matches no row, or an insert that violates the  *)
(* unique index on referenceId, aborts the unit of work and rolls it back. *)
(***************************************************************************)
EXTENDS Integers, Sequences, FiniteSets, TLC

\* ------------------------------------------------------------------ bounds
MaxRequests == 3       \* requests issued in one behaviour
NumDebits == 3         \* N of the concurrent-debit scenario
MaxSeed == 3           \* largest opening balance B of that scenario
MaxDebit == 2          \* largest debit amount a of that scenario
SignatureTtl == 2      \* SIGNATURE_TTL_MS, in clock ticks
MaxTime == 4           \* the clock stops here

\* request handlers; the general scenario runs two of them in parallel
Procs == 1..NumDebits
\* amounts a request may carry: negative, zero, positive
Amounts == {0 - 1, 0, 1}
Refs == {"r1", "r2"}
Accounts == {"a1", "a2"}
Wallets == {"w1", "w2"}
Nonces == {"n1", "n2"}

\* accounts -> wallets ownership, fixed at registration
Owner == [w \in Wallets |-> IF w = "w1" THEN "a1" ELSE "a2"]

\* ------------------------------------------------------------------- state
VARIABLES
    accounts,      \* account id -> status
    wallets,       \* wallet id -> [balance, version]
    transactions,  \* table Transaction, in creation order; id = index
    ledger,        \* table LedgerEntry, in creation order
    req,           \* per handler: the request in flight and its position
    started,       \* number of requests issued so far
    last,          \* the response sent last: its code, and whether it
                   \* answered the repeat of a committed debit
    clients,       \* what the clients of this behaviour send (never changes)
    baseVer,       \* history: per ledger entry, the wallet version its
                   \* unit of work read
    now,           \* the server's clock (Date.now())
    redis,         \* nonce keys: nonce -> the time the key expires (0: no
                   \* key) and, as history, the time it was set last
    aborted,       \* history: referenceIds of the debits a version conflict
                   \* has aborted
    wire           \* the request a client signed and the request that
                   \* arrived with that signature

vars == <<accounts, wallets, transactions, ledger, req, started, last,
          clients, baseVer, now, redis, aborted, wire>>
guard == <<now, redis, wire>>
store == <<accounts, wallets, transactions, ledger>>

\* --------------------------------------------------------------- data model
Statuses == {"pending", "completed", "reversed"}

\* A handler with no request; replay, beaten and retry are history: the
\* request repeats a committed debit / a request with the same referenceId
\* committed while this one was in flight / the request is a debit
\* resubmitted after a version conflict aborted it.
NoReq == [op |-> "none", acct |-> "a1", wallet |-> "w1", amount |-> 0,
          ref |-> "", target |-> 0, pc |-> "idle", snapBal |-> 0,
          snapVer |-> 0, snapStatus |-> "", replay |-> FALSE,
          beaten |-> FALSE, nonce |-> "", sig |-> TRUE, retry |-> FALSE]

\* The code of the response sent last ("" before the first response).
\* a nonce never seen
NoKey == [expires |-> 0, setAt |-> 0]

NoResp == [code |-> "", replay |-> FALSE, retry |-> FALSE]

\* JSON values as express.json() hands them over: a number, an object (its
\* members in insertion order) or an array (its items under their indices)
Num(n) == [t |-> "num", n |-> n, m |-> <<>>]
Obj(members) == [t |-> "obj", n |-> 0, m |-> members]
Arr(items) == [t |-> "arr", n |-> 0,
               m |-> [i \in 1..Len(items) |->
                        [k |-> ToString(i - 1), v |-> items[i]]]]
Member(k, v) == [k |-> k, v |-> v]

\* a request as the signature covers it
Request(method, url, timestamp, nonce, body) ==
    [method |-> method, url |-> url, timestamp |-> timestamp,
     nonce |-> nonce, body |-> body]

\* no signed request on the wire
NoWire == [signed |-> Request("", "", "", "", Num(0)),
           sent |-> Request("", "", "", "", Num(0))]

\* The rows a unit of work sees and writes; err # "" once a statement failed.
Ctx(ws, txs, ls) == [wallets |-> ws, transactions |-> txs, ledger |-> ls,
                     err |-> ""]

\* ------------------------------------------------------------ repositories
\* transactions.repo: findByReferenceTx (unique lookup on referenceId)
findByReferenceTx(txs, referenceId) ==
    {i \in 1..Len(txs) : txs[i].referenceId = referenceId}

\* a wallet lookup by id alone
findWalletByIdTx(id, accountId) == TRUE

\* a lookup by id of a wallet whose account is active, whoever owns it
findWalletActiveTx(id, accountId) == accounts[Owner[id]] = "ACTIVE"

\* wallet.repo: findWalletByIdAndAccountTx (where: { id, accountId })
findWalletByIdAndAccountTx(id, accountId) == Owner[id] = accountId

\* wallet.repo: updateWalletBalance, conditional on the version read
updateWalletBalanceAnyVersion(c, id, version, newBalance) ==
    IF c.err # "" THEN c
    ELSE [c EXCEPT !.wallets[id] =
              [balance |-> newBalance, version |-> c.wallets[id].version + 1]]

\* wallet.update where { id, version }: balance set, version incremented
updateWalletBalance(c, id, version, newBalance) ==
    IF c.err # "" THEN c
    ELSE IF c.wallets[id].version # version THEN [c EXCEPT !.err = "P2025"]
    ELSE [c EXCEPT !.wallets[id] =
              [balance |-> newBalance, version |-> version + 1]]

\* debitWallet without the version in its where clause
debitWalletAnyVersion(c, id, balance, version, amount) ==
    IF c.err # "" THEN c
    ELSE [c EXCEPT !.wallets[id] =
              [balance |-> balance - amount, version |-> version + 1]]

\* debitWallet retrying on the row as it is now when the version moved
debitWalletRetries(c, id, balance, version, amount) ==
    IF c.err # "" THEN c
    ELSE [c EXCEPT !.wallets[id] =
              [balance |-> c.wallets[id].balance - amount,
               version |-> c.wallets[id].version + 1]]

\* debitWallet looking for the version it is about to write
debitWalletLate(c, id, balance, version, amount) ==
    IF c.err # "" THEN c
    ELSE IF c.wallets[id].version # version + 1
         THEN [c EXCEPT !.err = "P2025"]
    ELSE [c EXCEPT !.wallets[id] =
              [balance |-> balance - amount, version |-> version + 1]]

\* wallet.repo: debitWallet, conditional on the version read
debitWallet(c, id, balance, version, amount) ==
    IF c.err # "" THEN c
    ELSE IF c.wallets[id].version # version THEN [c EXCEPT !.err = "P2025"]
    ELSE [c EXCEPT !.wallets[id] =
              [balance |-> balance - amount, version |-> version + 1]]

\* creditWallet adding to the row as it is now: balance: { increment }
creditWalletIncrement(c, walletId, currentBalance, amount) ==
    IF c.err # "" THEN c
    ELSE [c EXCEPT !.wallets[walletId].balance = @ + amount]

\* wallet.repo: creditWallet, where: { id } only, data: { balance } only
creditWallet(c, walletId, currentBalance, amount) ==
    IF c.err # "" THEN c
    ELSE [c EXCEPT !.wallets[walletId].balance = currentBalance + amount]

\* createTransaction on a table without the unique index
createTransactionNoIndex(c, walletId, type, amount, status, referenceId) ==
    IF c.err # "" THEN c
    ELSE [c EXCEPT !.transactions = Append(@,
              [walletId |-> walletId, type |-> type, amount |-> amount,
               status |-> status, referenceId |-> referenceId])]

\* transactions.repo: createTransaction under UNIQUE INDEX referenceId
createTransaction(c, walletId, type, amount, status, referenceId) ==
    IF c.err # "" THEN c
    ELSE IF findByReferenceTx(c.transactions, referenceId) # {}
         THEN [c EXCEPT !.err = "P2002"]
    ELSE [c EXCEPT !.transactions = Append(@,
              [walletId |-> walletId, type |-> type, amount |-> amount,
               status |-> status, referenceId |-> referenceId])]

\* createLedgerEntry keeping one row per table: the new entry replaces
\* the latest one
createLedgerEntryUpsert(c, direction, amount, balanceBefore, balanceAfter) ==
    IF c.err # "" THEN c
    ELSE [c EXCEPT !.ledger =
              Append(IF Len(@) = 0 THEN @ ELSE SubSeq(@, 1, Len(@) - 1),
                     [transactionId |-> Len(c.transactions),
                      direction |-> direction, amount |-> amount,
                      balanceBefore |-> balanceBefore,
                      balanceAfter |-> balanceAfter])]

\* ledger.repo: createLedgerEntry, linked to the transaction just created
createLedgerEntry(c, direction, amount, balanceBefore, balanceAfter) ==
    IF c.err # "" THEN c
    ELSE [c EXCEPT !.ledger = Append(@,
              [transactionId |-> Len(c.transactions),
               direction |-> direction, amount |-> amount,
               balanceBefore |-> balanceBefore,
               balanceAfter |-> balanceAfter])]

\* updateTransactionStatus writing the initial status instead of the new one
resetTransactionStatus(c, id, status) ==
    IF c.err # "" THEN c
    ELSE [c EXCEPT !.transactions[id].status = "pending"]

\* updateTransactionStatus settling the transaction instead
updateTransactionSettles(c, id, status) ==
    IF c.err # "" THEN c
    ELSE [c EXCEPT !.transactions[id].status = "completed"]

\* updateTransactionStatus writing the row anew, with no amount
updateTransactionVoid(c, id, status) ==
    IF c.err # "" THEN c
    ELSE [c EXCEPT !.transactions[id].status = status,
                   !.transactions[id].amount = 0]

\* transactions.repo: updateTransactionStatus (where: { id })
updateTransactionStatus(c, id, status) ==
    IF c.err # "" THEN c
    ELSE [c EXCEPT !.transactions[id].status = status]

\* statements run one by one outside a transaction: what was written stays
KeepWrites(before, after) == after

\* a rollback that undoes the statements of a version conflict only
RollbackConflicts(before, after) ==
    IF after.err = "P2025" THEN [before EXCEPT !.err = after.err] ELSE after

\* prisma.$transaction: all statements or none
Rollback(before, after) == IF after.err = "" THEN after
                           ELSE [before EXCEPT !.err = after.err]

\* ------------------------------------------------------------------ domain
\* domain/wallet: assertWalletActive
assertWalletActive(accountStatus) ==
    IF accountStatus = "FROZEN" THEN "ACCOUNT_FROZEN" ELSE ""

\* canDebit refusing a debit of the whole balance
canDebitStrict(balance, amount) ==
    IF amount <= 0 THEN "INVALID_AMOUNT"
    ELSE IF balance <= amount THEN "INSUFFICIENT_FUNDS"
    ELSE ""

\* domain/wallet: canDebit
canDebit(balance, amount) ==
    IF amount <= 0 THEN "INVALID_AMOUNT"
    ELSE IF balance < amount THEN "INSUFFICIENT_FUNDS"
    ELSE ""

\* domain/transactions: assertTransactionPending
assertTransactionPending(status) ==
    IF status # "pending" THEN "TRANSACTION_NOT_PENDING" ELSE ""

\* ------------------------------------------------------------------- steps
Idle(p) == req[p].pc = "idle"

AllOps == {"authorize", "debit", "credit", "reverse", "adminReverse",
           "hAuthorize", "hDebit", "hCredit", "hReverse"}

\* referenceIds the next request may carry
NextRefs == IF clients.fresh THEN {"d" \o ToString(started + 1)}
            ELSE clients.refs

\* handler p is free and the clients have a request of kind op to send
Accepts(p, op) ==
    /\ Idle(p)
    /\ p <= clients.parallel
    /\ op \in clients.ops
    /\ started < clients.budget
InFlight(p) == req[p].pc \in {"read", "commit"}

MutatingOps == {"authorize", "debit", "credit",
                "hAuthorize", "hDebit", "hCredit"}
DebitOps == {"debit", "hDebit"}
ReverseOps == {"reverse", "hReverse"}

\* the same debit was already committed when this request is issued
IsReplay(op, acct, w, amount, ref) ==
    /\ op \in DebitOps
    /\ Owner[w] = acct
    /\ \E i \in 1..Len(transactions) :
          /\ transactions[i].type = "debit"
          /\ transactions[i].status = "completed"
          /\ transactions[i].walletId = w
          /\ transactions[i].amount = amount
          /\ transactions[i].referenceId = ref

\* A client issues a request and handler p takes it.
Issue(p, op, acct, w, amount, ref, target) ==
    [req EXCEPT ![p] =
        [NoReq EXCEPT !.op = op, !.acct = acct, !.wallet = w,
            !.amount = amount, !.ref = ref, !.target = target,
            !.replay = IsReplay(op, acct, w, amount, ref),
            !.retry = (op \in DebitOps /\ ref \in aborted)]]

\* status of the transaction a reversal aims at, as stored right now
TargetStatus(r) ==
    IF r.op \in ReverseOps \cup {"adminReverse"} /\ r.target \in 1..Len(transactions)
    THEN transactions[r.target].status ELSE ""

\* The response is sent and the handler is free again.
Respond(rq, p, code) ==
    /\ req' = [rq EXCEPT ![p] = NoReq]
    /\ last' = [code |-> code, replay |-> rq[p].replay,
                retry |-> rq[p].retry]

\* requests in flight with the referenceId that handler p just committed
Beaten(p) ==
    {q \in Procs \ {p} : /\ InFlight(q)
                          /\ req[p].op \in MutatingOps
                          /\ req[q].op \in MutatingOps
                          /\ req[q].ref = req[p].ref}

\* A unit of work ends: its writes are installed, or nothing is.
Commit(p, c, mutates, ok) ==
    /\ wallets' = c.wallets
    /\ transactions' = c.transactions
    /\ ledger' = c.ledger
    /\ baseVer' = IF c.err = "" /\ mutates
                  THEN Append(baseVer, req[p].snapVer) ELSE baseVer
    /\ LET rq == IF c.err # "" THEN req
                 ELSE [q \in Procs |->
                          IF q \in Beaten(p)
                          THEN [req[q] EXCEPT !.beaten = TRUE] ELSE req[q]]
       IN  Respond(rq, p, IF c.err = "" THEN ok ELSE c.err)
    /\ aborted' = IF c.err = "P2025" /\ req[p].op \in DebitOps
                  THEN aborted \cup {req[p].ref} ELSE aborted
    /\ UNCHANGED <<accounts, started, clients, guard>>

Here == Ctx(wallets, transactions, ledger)

\* A request is accepted for processing; its guards run on what it read.
Begin(p, op, acct, w, amount, ref, target, err, bal, ver, status) ==
    /\ Accepts(p, op)
    /\ started' = started + 1
    /\ LET rq == Issue(p, op, acct, w, amount, ref, target)
       IN  IF err # "" THEN Respond(rq, p, err)
           ELSE /\ req' = [rq EXCEPT ![p].pc = "commit", ![p].snapBal = bal,
                               ![p].snapVer = ver, ![p].snapStatus = status]
                /\ last' = last
    /\ UNCHANGED <<store, clients, baseVer, guard, aborted>>

\* --------------------------------------------- services/transaction.service
\* authorize: snapshot read and guards
authorizeOn(p, acct, w, amount, ref) ==
      LET e1 == IF ~findWalletByIdAndAccountTx(w, acct)
                THEN "WALLET_NOT_FOUND" ELSE ""
          e2 == IF e1 # "" THEN e1
                ELSE assertWalletActive(accounts[Owner[w]])
          e3 == IF e2 # "" THEN e2
                ELSE canDebit(wallets[w].balance, amount)
          e4 == IF e3 # "" THEN e3
                ELSE IF findByReferenceTx(transactions, ref) # {}
                     THEN "DUPLICATE_REFERENCE" ELSE ""
      IN  Begin(p, "authorize", acct, w, amount, ref, 0, e4,
                wallets[w].balance, wallets[w].version, "")

\* an authorize arrives at the service: any caller, wallet, amount,
\* referenceId
authorizeBegin(p) ==
    \E acct \in clients.callers, w \in clients.wallets,
       amount \in clients.amounts, ref \in NextRefs :
      authorizeOn(p, acct, w, amount, ref)

\* authorize placing a hold: the amount is taken from the balance as well
authorizeHolds(p) ==
    /\ req[p].op = "authorize" /\ req[p].pc = "commit"
    /\ LET r == req[p]
           c1 == debitWallet(Here, r.wallet, r.snapBal, r.snapVer, r.amount)
           c2 == createTransaction(c1, r.wallet, "authorize", r.amount,
                                   "pending", r.ref)
       IN  Commit(p, Rollback(Here, c2), FALSE, "OK")

\* authorize: creates the pending transaction, nothing else
authorizeCommit(p) ==
    /\ req[p].op = "authorize" /\ req[p].pc = "commit"
    /\ LET r == req[p]
           c1 == createTransaction(Here, r.wallet, "authorize", r.amount,
                                   "pending", r.ref)
       IN  Commit(p, Rollback(Here, c1), FALSE, "OK")

\* debit: snapshot read and guards
debitOn(p, acct, w, amount, ref) ==
      LET e1 == IF ~findWalletByIdAndAccountTx(w, acct)
                THEN "WALLET_NOT_FOUND" ELSE ""
          e2 == IF e1 # "" THEN e1
                ELSE assertWalletActive(accounts[Owner[w]])
          e3 == IF e2 # "" THEN e2
                ELSE canDebit(wallets[w].balance, amount)
          e4 == IF e3 # "" THEN e3
                ELSE IF findByReferenceTx(transactions, ref) # {}
                     THEN "DUPLICATE_REFERENCE" ELSE ""
      IN  Begin(p, "debit", acct, w, amount, ref, 0, e4,
                wallets[w].balance, wallets[w].version, "")

\* a debit arrives at the service: any caller, wallet, amount, referenceId
debitBegin(p) ==
    \E acct \in clients.callers, w \in clients.wallets,
       amount \in clients.amounts, ref \in NextRefs :
      debitOn(p, acct, w, amount, ref)

\* debit: wallet write, transaction, ledger entry
debitCommit(p) ==
    /\ req[p].op = "debit" /\ req[p].pc = "commit"
    /\ LET r == req[p]
           c1 == debitWallet(Here, r.wallet, r.snapBal, r.snapVer, r.amount)
           c2 == createTransaction(c1, r.wallet, "debit", r.amount,
                                   "completed", r.ref)
           c3 == createLedgerEntry(c2, "debit", r.amount, r.snapBal,
                                   c1.wallets[r.wallet].balance)
       IN  Commit(p, Rollback(Here, c3), TRUE, "OK")

\* credit: snapshot read and guards
creditOn(p, acct, w, amount, ref) ==
      LET e1 == IF ~findWalletByIdAndAccountTx(w, acct)
                THEN "WALLET_NOT_FOUND" ELSE ""
          e2 == IF e1 # "" THEN e1
                ELSE assertWalletActive(accounts[Owner[w]])
          e3 == IF e2 # "" THEN e2
                ELSE IF findByReferenceTx(transactions, ref) # {}
                     THEN "DUPLICATE_REFERENCE" ELSE ""
      IN  Begin(p, "credit", acct, w, amount, ref, 0, e3,
                wallets[w].balance, wallets[w].version, "")

\* a credit arrives at the service: any caller, wallet, amount, referenceId
creditBegin(p) ==
    \E acct \in clients.callers, w \in clients.wallets,
       amount \in clients.amounts, ref \in NextRefs :
      creditOn(p, acct, w, amount, ref)

\* credit: wallet write, transaction, ledger entry
creditCommit(p) ==
    /\ req[p].op = "credit" /\ req[p].pc = "commit"
    /\ LET r == req[p]
           c1 == creditWallet(Here, r.wallet, r.snapBal, r.amount)
           c2 == createTransaction(c1, r.wallet, "credit", r.amount,
                                   "completed", r.ref)
           c3 == createLedgerEntry(c2, "credit", r.amount, r.snapBal,
                                   c1.wallets[r.wallet].balance)
       IN  Commit(p, Rollback(Here, c3), TRUE, "OK")

\* reverse: findByIdTx, ownership and pending guards
reverseOn(p, acct, id) ==
      LET found == id <= Len(transactions)
          e1 == IF ~found THEN "TRANSACTION_NOT_FOUND" ELSE ""
          e2 == IF e1 # "" THEN e1
                ELSE IF Owner[transactions[id].walletId] # acct
                     THEN "TRANSACTION_NOT_FOUND" ELSE ""
          e3 == IF e2 # "" THEN e2
                ELSE assertTransactionPending(transactions[id].status)
      IN  Begin(p, "reverse", acct,
                IF found THEN transactions[id].walletId ELSE "w1", 0,
                IF found THEN transactions[id].referenceId ELSE "",
                id, e3, 0, 0,
                IF found THEN transactions[id].status ELSE "")

\* a caller asks for the reversal of any transaction id, known or not
reverseBegin(p) ==
    \E acct \in clients.callers, id \in 1..(Len(transactions) + 1) :
      reverseOn(p, acct, id)

\* reverse: status -> reversed
reverseCommit(p) ==
    /\ req[p].op = "reverse" /\ req[p].pc = "commit"
    /\ LET c1 == updateTransactionStatus(Here, req[p].target, "reversed")
       IN  Commit(p, Rollback(Here, c1), FALSE, "OK")

\* a reversal of a credit that never checks the balance
neverInsufficient(balance, amount) == FALSE

\* adminReverse: wallet.balance < transaction.amount
insufficientBalance(balance, amount) == balance < amount

\* adminReverse: findByIdTx and status / type / funds guards
adminReverseOn(p, id) ==
      LET found == id <= Len(transactions)
          t == transactions[id]
          e1 == IF ~found THEN "TRANSACTION_NOT_FOUND" ELSE ""
          e2 == IF e1 # "" THEN e1
                ELSE IF t.status = "reversed" THEN "ALREADY_REVERSED"
                ELSE IF t.status # "completed" THEN "INVALID_STATUS"
                ELSE ""
          e3 == IF e2 # "" THEN e2
                ELSE IF t.type = "debit" THEN ""
                ELSE IF t.type = "credit"
                     THEN IF insufficientBalance(wallets[t.walletId].balance,
                                                 t.amount)
                          THEN "INSUFFICIENT_FUNDS" ELSE ""
                ELSE "INVALID_TRANSACTION_TYPE"
      IN  Begin(p, "adminReverse", "admin",
                IF found THEN t.walletId ELSE "w1",
                IF found THEN t.amount ELSE 0,
                IF found THEN t.referenceId ELSE "",
                id, e3,
                IF found THEN wallets[t.walletId].balance ELSE 0,
                IF found THEN wallets[t.walletId].version ELSE 0,
                IF found THEN t.status ELSE "")

\* an admin asks for the reversal of any transaction id, known or not
adminReverseBegin(p) ==
    \E id \in 1..(Len(transactions) + 1) : adminReverseOn(p, id)

\* the reversal applying T's own direction once more
reversalBalanceRepeats(type, balance, amount) ==
    IF type = "debit" THEN balance - amount ELSE balance + amount

\* adminReverse: newBalance, a debit is given back and a credit taken back
reversalBalance(type, balance, amount) ==
    IF type = "debit" THEN balance + amount ELSE balance - amount

\* adminReverse: original -> reversed, wallet write, compensating
\* transaction "REV-" + referenceId, inverse ledger entry
adminReverseCommit(p) ==
    /\ req[p].op = "adminReverse" /\ req[p].pc = "commit"
    /\ LET r == req[p]
           t == transactions[r.target]
           newBalance == reversalBalance(t.type, r.snapBal, t.amount)
           reversalType == IF t.type = "debit" THEN "credit" ELSE "debit"
           c1 == updateTransactionStatus(Here, r.target, "reversed")
           c2 == updateWalletBalance(c1, t.walletId, r.snapVer, newBalance)
           c3 == createTransaction(c2, t.walletId, "reverse", t.amount,
                                   "completed", "REV-" \o t.referenceId)
           c4 == createLedgerEntry(c3, reversalType, t.amount, r.snapBal,
                                   newBalance)
       IN  Commit(p, Rollback(Here, c4), TRUE, "OK")

\* ------------------------------------------------ services/wallet.service
\* sum of the amounts of the pending authorize transactions of wallet w
\* among the first n transactions
RECURSIVE pendingHolds(_, _)
pendingHolds(w, n) ==
    IF n = 0 THEN 0
    ELSE pendingHolds(w, n - 1)
         + (IF /\ transactions[n].walletId = w
               /\ transactions[n].type = "authorize"
               /\ transactions[n].status = "pending"
            THEN transactions[n].amount ELSE 0)

\* getBalance subtracting the pending holds
getBalanceHolds(w) ==
    [balance |-> wallets[w].balance,
     availableBalance |-> wallets[w].balance
                              - pendingHolds(w, Len(transactions))]

\* getBalance: what the owner of wallet w is told
getBalance(w) ==
    [balance |-> wallets[w].balance, availableBalance |-> wallets[w].balance]

\* ------------------------------------------------- routes.mjs and handlers
\* middleware/auth: the caller's account is loaded and a FROZEN one refused
auth(accountId) ==
    IF accounts[accountId] = "FROZEN" THEN "ACCOUNT_FROZEN" ELSE ""

\* middleware/auth and middleware/idempotency, then the handler's entry
\* checks.  A routed request (authorize, debit, credit, reverse) is
\* rejected when the caller's account is FROZEN, and when the caller's
\* account already has a transaction with its referenceId; the lookup is
\* outside any unit of work.  The handler then rejects a request with a
\* missing field (!amount) and one for a wallet of another account; neither
\* check depends on a row that can change (ownership is fixed), so both are
\* evaluated here and stated again where the handler has them.
idempotencyOn(p, op, acct, w, amount, ref) ==
      /\ op = "hReverse" => (w = "w1" /\ amount = 0)
      /\ op # "hReverse" => amount \in clients.amounts
      /\ Accepts(p, op)
      /\ started' = started + 1
      /\ \E sg \in clients.signed :
         LET rq == [Issue(p, op, acct, w, amount, ref, 0) EXCEPT ![p].sig = sg]
             exists == \E i \in findByReferenceTx(transactions, ref) :
                           Owner[transactions[i].walletId] = acct
             e0 == auth(acct)
             e1 == IF e0 # "" THEN e0
                   ELSE IF exists THEN "CONFLICT" ELSE ""
             e2 == IF e1 # "" \/ op = "hReverse" THEN e1
                   ELSE IF amount = 0 THEN "BAD_REQUEST" ELSE ""
             e3 == IF e2 # "" \/ op = "hReverse" THEN e2
                   ELSE IF Owner[w] # acct THEN "NOT_FOUND" ELSE ""
         IN  IF e3 # "" THEN Respond(rq, p, e3)
             ELSE /\ req' = [rq EXCEPT ![p].pc = "read"]
                  /\ last' = last
      /\ UNCHANGED <<store, clients, baseVer, guard, aborted>>

\* a routed request arrives: any kind, caller, wallet, amount, referenceId
idempotency(p) ==
    \E op \in {"hAuthorize", "hDebit", "hCredit", "hReverse"},
       acct \in clients.callers, w \in clients.wallets,
       amount \in clients.amounts \cup {0}, ref \in NextRefs :
      idempotencyOn(p, op, acct, w, amount, ref)

\* a handler step that reads: respond with an error or go on to the writes
ReadStep(p, err, bal, ver, target, status) ==
    /\ IF err # "" THEN Respond(req, p, err)
       ELSE /\ req' = [req EXCEPT ![p].pc = "commit", ![p].snapBal = bal,
                           ![p].snapVer = ver, ![p].target = target,
                           ![p].snapStatus = status]
            /\ last' = last
    /\ UNCHANGED <<store, started, clients, baseVer, guard, aborted>>

\* handlers/authorize: field check, wallet lookup, funds check
hAuthorizeRead(p) ==
    /\ req[p].op = "hAuthorize" /\ req[p].pc = "read"
    /\ LET r == req[p]
           e1 == IF r.amount = 0 THEN "BAD_REQUEST" ELSE ""
           e2 == IF e1 # "" THEN e1
                 ELSE IF Owner[r.wallet] # r.acct THEN "NOT_FOUND" ELSE ""
           e3 == IF e2 # "" THEN e2
                 ELSE IF wallets[r.wallet].balance < r.amount
                      THEN "INSUFFICIENT_FUNDS" ELSE ""
       IN  ReadStep(p, e3, wallets[r.wallet].balance,
                    wallets[r.wallet].version, 0, "")

\* handlers/authorize: the insert, a single statement
hAuthorizeCommit(p) ==
    /\ req[p].op = "hAuthorize" /\ req[p].pc = "commit"
    /\ LET r == req[p]
           c1 == createTransaction(Here, r.wallet, "authorize", r.amount,
                                   "pending", r.ref)
       IN  Commit(p, IF c1.err = "" THEN c1
                     ELSE [c1 EXCEPT !.err = "INTERNAL_SERVER_ERROR"],
                  FALSE, "CREATED")

\* handlers/debit: field check, wallet lookup, funds check
hDebitRead(p) ==
    /\ req[p].op = "hDebit" /\ req[p].pc = "read"
    /\ LET r == req[p]
           e1 == IF r.amount = 0 THEN "BAD_REQUEST" ELSE ""
           e2 == IF e1 # "" THEN e1
                 ELSE IF Owner[r.wallet] # r.acct THEN "NOT_FOUND" ELSE ""
           e3 == IF e2 # "" THEN e2
                 ELSE IF wallets[r.wallet].balance < r.amount
                      THEN "INSUFFICIENT_FUNDS" ELSE ""
       IN  ReadStep(p, e3, wallets[r.wallet].balance,
                    wallets[r.wallet].version, 0, "")

\* handlers/debit: versioned wallet write, transaction, ledger entry
hDebitCommit(p) ==
    /\ req[p].op = "hDebit" /\ req[p].pc = "commit"
    /\ LET r == req[p]
           c1 == updateWalletBalance(Here, r.wallet, r.snapVer,
                                     r.snapBal - r.amount)
           c2 == createTransaction(c1, r.wallet, "debit", r.amount,
                                   "completed", r.ref)
           c3 == createLedgerEntry(c2, "debit", r.amount, r.snapBal,
                                   c1.wallets[r.wallet].balance)
       IN  Commit(p, Rollback(Here, c3), TRUE, "OK")

\* handlers/credit: field check, wallet lookup
hCreditRead(p) ==
    /\ req[p].op = "hCredit" /\ req[p].pc = "read"
    /\ LET r == req[p]
           e1 == IF r.amount = 0 THEN "BAD_REQUEST" ELSE ""
           e2 == IF e1 # "" THEN e1
                 ELSE IF Owner[r.wallet] # r.acct THEN "NOT_FOUND" ELSE ""
       IN  ReadStep(p, e2, wallets[r.wallet].balance,
                    wallets[r.wallet].version, 0, "")

\* handlers/credit: unconditional wallet write, transaction, ledger entry
hCreditCommit(p) ==
    /\ req[p].op = "hCredit" /\ req[p].pc = "commit"
    /\ LET r == req[p]
           c1 == creditWallet(Here, r.wallet, r.snapBal, r.amount)
           c2 == createTransaction(c1, r.wallet, "credit", r.amount,
                                   "completed", r.ref)
           c3 == createLedgerEntry(c2, "credit", r.amount, r.snapBal,
                                   c1.wallets[r.wallet].balance)
       IN  Commit(p, Rollback(Here, c3), TRUE, "OK")

\* handlers/reverse: lookup by referenceId in the caller's account
hReverseRead(p) ==
    /\ req[p].op = "hReverse" /\ req[p].pc = "read"
    /\ LET r == req[p]
           hits == {i \in findByReferenceTx(transactions, r.ref) :
                       Owner[transactions[i].walletId] = r.acct}
           id == IF hits = {} THEN 0 ELSE CHOOSE i \in hits : TRUE
           e1 == IF hits = {} THEN "NOT_FOUND" ELSE ""
           e2 == IF e1 # "" THEN e1
                 ELSE IF transactions[id].status = "reversed"
                      THEN "CONFLICT" ELSE ""
       IN  ReadStep(p, e2, 0, 0, id,
                    IF hits = {} THEN "" ELSE transactions[id].status)

\* handlers/reverse: status -> reversed, a single statement
hReverseCommit(p) ==
    /\ req[p].op = "hReverse" /\ req[p].pc = "commit"
    /\ LET c1 == updateTransactionStatus(Here, req[p].target, "reversed")
       IN  Commit(p, c1, FALSE, "OK")

Init ==
    /\ accounts = [a \in Accounts |-> "ACTIVE"]
    /\ wallets = [w \in Wallets |-> [balance |-> 0, version |-> 0]]
    /\ transactions = <<>>
    /\ ledger = <<>>
    /\ req = [p \in Procs |-> NoReq]
    /\ started = 0
    /\ last = NoResp
    /\ clients = [wallets |-> {"w1"}, callers |-> Accounts, ops |-> AllOps,
                  amounts |-> Amounts,
                  budget |-> MaxRequests, parallel |-> 2,
                  signed |-> {TRUE}, refs |-> Refs,
                  fresh |-> FALSE, seed |-> 0]
    /\ baseVer = <<>>
    /\ now = 0
    /\ redis = [n \in Nonces |-> NoKey]
    /\ aborted = {}
    /\ wire = NoWire

Next ==
    \E p \in Procs :
        \/ authorizeBegin(p)
        \/ authorizeCommit(p)
        \/ debitBegin(p)
        \/ debitCommit(p)
        \/ creditBegin(p)
        \/ creditCommit(p)
        \/ reverseBegin(p)
        \/ reverseCommit(p)
        \/ adminReverseBegin(p)
        \/ adminReverseCommit(p)
        \/ idempotency(p)
        \/ hAuthorizeRead(p)
        \/ hAuthorizeCommit(p)
        \/ hDebitRead(p)
        \/ hDebitCommit(p)
        \/ hCreditRead(p)
        \/ hCreditCommit(p)
        \/ hReverseRead(p)
        \/ hReverseCommit(p)

Spec == Init /\ [][Next]_vars

\* ------------------------------------------------ N concurrent debits
\* The wallet holds B, the outcome of one committed credit of B (which
\* leaves the version at 0), and N debits of the same amount a, each with
\* its own referenceId, are sent through the engine or the route.
InitDebits ==
    \E B \in 0..MaxSeed, a \in 1..MaxDebit :
      /\ accounts = [x \in Accounts |-> "ACTIVE"]
      /\ wallets = [w \in Wallets |->
                      [balance |-> IF w = "w1" THEN B ELSE 0, version |-> 0]]
      /\ transactions = IF B = 0 THEN <<>>
                        ELSE <<[walletId |-> "w1", type |-> "credit",
                                amount |-> B, status |-> "completed",
                                referenceId |-> "d0"]>>
      /\ ledger = IF B = 0 THEN <<>>
                  ELSE <<[transactionId |-> 1, direction |-> "credit",
                          amount |-> B, balanceBefore |-> 0,
                          balanceAfter |-> B]>>
      /\ req = [p \in Procs |-> NoReq]
      /\ started = 0
      /\ last = NoResp
      /\ clients = [wallets |-> {"w1"}, callers |-> {"a1"},
                    ops |-> {"debit", "hDebit"},
                    amounts |-> {a}, budget |-> NumDebits,
                    parallel |-> NumDebits, signed |-> {TRUE}, refs |-> Refs,
                    fresh |-> TRUE, seed |-> B]
      /\ baseVer = IF B = 0 THEN <<>> ELSE <<0>>
      /\ now = 0
      /\ redis = [n \in Nonces |-> NoKey]
      /\ aborted = {}
      /\ wire = NoWire

NextDebits ==
    \E p \in Procs :
        \/ debitBegin(p)
        \/ debitCommit(p)
        \/ idempotency(p)
        \/ hDebitRead(p)
        \/ hDebitCommit(p)

SpecDebits == InitDebits /\ [][NextDebits]_vars

\* the debits on a wallet seeded with MaxSeed
InitFunded == InitDebits /\ wallets["w1"].balance = MaxSeed

\* Debits on the funded wallet, each handler running on once it has been
\* entered: an async function whose awaited statements all complete, none
\* waiting for another request (no lock is held between statements, a
\* conditional update that matches no row returns at once).
SpecDebitsFair ==
    /\ InitFunded
    /\ [][NextDebits]_vars
    /\ \A p \in Procs :
          /\ WF_vars(debitCommit(p))
          /\ WF_vars(hDebitRead(p))
          /\ WF_vars(hDebitCommit(p))

\* The concurrent debits of a funded wallet where the clients resubmit:
\* a request may carry the referenceId of an earlier one.
InitRetry ==
    \E B \in 1..MaxSeed, a \in 1..MaxDebit :
      /\ accounts = [x \in Accounts |-> "ACTIVE"]
      /\ wallets = [w \in Wallets |->
                      [balance |-> IF w = "w1" THEN B ELSE 0, version |-> 0]]
      /\ transactions = <<[walletId |-> "w1", type |-> "credit",
                           amount |-> B, status |-> "completed",
                           referenceId |-> "d0"]>>
      /\ ledger = <<[transactionId |-> 1, direction |-> "credit",
                     amount |-> B, balanceBefore |-> 0, balanceAfter |-> B]>>
      /\ req = [p \in Procs |-> NoReq]
      /\ started = 0
      /\ last = NoResp
      /\ clients = [wallets |-> {"w1"}, callers |-> {"a1"},
                    ops |-> {"debit", "hDebit"},
                    amounts |-> {a}, budget |-> MaxRequests,
                    parallel |-> 2, signed |-> {TRUE}, refs |-> Refs,
                    fresh |-> FALSE, seed |-> B]
      /\ baseVer = <<0>>
      /\ now = 0
      /\ redis = [n \in Nonces |-> NoKey]
      /\ aborted = {}
      /\ wire = NoWire

SpecRetry == InitRetry /\ [][NextDebits]_vars

\* A wallet that was credited 1 and debited 1 (balance 0, version 1) gets
\* further credits while an admin reverses transactions.
InitReversal ==
    /\ accounts = [a \in Accounts |-> "ACTIVE"]
    /\ wallets = [w \in Wallets |->
                    [balance |-> 0, version |-> IF w = "w1" THEN 1 ELSE 0]]
    /\ transactions = <<[walletId |-> "w1", type |-> "credit", amount |-> 1,
                         status |-> "completed", referenceId |-> "d0"],
                        [walletId |-> "w1", type |-> "debit", amount |-> 1,
                         status |-> "completed", referenceId |-> "d1"]>>
    /\ ledger = <<[transactionId |-> 1, direction |-> "credit", amount |-> 1,
                   balanceBefore |-> 0, balanceAfter |-> 1],
                  [transactionId |-> 2, direction |-> "debit", amount |-> 1,
                   balanceBefore |-> 1, balanceAfter |-> 0]>>
    /\ req = [p \in Procs |-> NoReq]
    /\ started = 0
    /\ last = NoResp
    /\ clients = [wallets |-> {"w1"}, callers |-> {"a1"},
                  ops |-> {"credit", "hCredit", "adminReverse"},
                  amounts |-> {a \in Amounts : a > 0},
                  budget |-> MaxRequests, parallel |-> 2,
                  signed |-> {TRUE}, refs |-> Refs,
                  fresh |-> FALSE, seed |-> 0]
    /\ baseVer = <<0, 0>>
    /\ now = 0
    /\ redis = [n \in Nonces |-> NoKey]
    /\ aborted = {}
    /\ wire = NoWire

NextReversal ==
    \E p \in Procs :
        \/ creditBegin(p)
        \/ creditCommit(p)
        \/ adminReverseBegin(p)
        \/ adminReverseCommit(p)
        \/ idempotency(p)
        \/ hCreditRead(p)
        \/ hCreditCommit(p)

SpecReversal == InitReversal /\ [][NextReversal]_vars

\* One request at a time: clients credit either wallet under "r1" or
\* "REV-r1" and an admin reverses; with no two requests side by side only
\* the reversal can run into the unique index.
InitTaken ==
    /\ accounts = [a \in Accounts |-> "ACTIVE"]
    /\ wallets = [w \in Wallets |-> [balance |-> 0, version |-> 0]]
    /\ transactions = <<>>
    /\ ledger = <<>>
    /\ req = [p \in Procs |-> NoReq]
    /\ started = 0
    /\ last = NoResp
    /\ clients = [wallets |-> Wallets, callers |-> Accounts,
                  ops |-> {"credit", "hCredit", "adminReverse"},
                  amounts |-> {a \in Amounts : a > 0},
                  budget |-> MaxRequests, parallel |-> 1,
                  signed |-> {TRUE}, refs |-> {"r1", "REV-r1"},
                  fresh |-> FALSE, seed |-> 0]
    /\ baseVer = <<>>
    /\ now = 0
    /\ redis = [n \in Nonces |-> NoKey]
    /\ aborted = {}
    /\ wire = NoWire

SpecTaken == InitTaken /\ [][NextReversal]_vars

\* Admins alone: wallet w1 was credited once ("d0") and debited twice
\* ("d1", "d2") down to 0, and up to MaxRequests reversals of any of the
\* three run side by side.
InitReversals ==
    \E a1, a2 \in 1..MaxDebit :
    /\ accounts = [a \in Accounts |-> "ACTIVE"]
    /\ wallets = [w \in Wallets |->
                    [balance |-> 0, version |-> IF w = "w1" THEN 2 ELSE 0]]
    /\ transactions = <<[walletId |-> "w1", type |-> "credit",
                         amount |-> a1 + a2, status |-> "completed",
                         referenceId |-> "d0"],
                        [walletId |-> "w1", type |-> "debit", amount |-> a1,
                         status |-> "completed", referenceId |-> "d1"],
                        [walletId |-> "w1", type |-> "debit", amount |-> a2,
                         status |-> "completed", referenceId |-> "d2"]>>
    /\ ledger = <<[transactionId |-> 1, direction |-> "credit",
                   amount |-> a1 + a2, balanceBefore |-> 0,
                   balanceAfter |-> a1 + a2],
                  [transactionId |-> 2, direction |-> "debit", amount |-> a1,
                   balanceBefore |-> a1 + a2, balanceAfter |-> a2],
                  [transactionId |-> 3, direction |-> "debit", amount |-> a2,
                   balanceBefore |-> a2, balanceAfter |-> 0]>>
    /\ req = [p \in Procs |-> NoReq]
    /\ started = 0
    /\ last = NoResp
    /\ clients = [wallets |-> {"w1"}, callers |-> {"a1"},
                  ops |-> {"adminReverse"},
                  amounts |-> {a \in Amounts : a > 0},
                  budget |-> MaxRequests, parallel |-> MaxRequests,
                  signed |-> {TRUE}, refs |-> Refs,
                  fresh |-> FALSE, seed |-> 0]
    /\ baseVer = <<0, 0, 1>>
    /\ now = 0
    /\ redis = [n \in Nonces |-> NoKey]
    /\ aborted = {}
    /\ wire = NoWire

NextReversals ==
    \E p \in Procs :
        \/ adminReverseBegin(p)
        \/ adminReverseCommit(p)

SpecReversals == InitReversals /\ [][NextReversals]_vars

\* The general scenario with well-formed requests only: every amount is a
\* positive integer.
InitPositive ==
    /\ accounts = [a \in Accounts |-> "ACTIVE"]
    /\ wallets = [w \in Wallets |-> [balance |-> 0, version |-> 0]]
    /\ transactions = <<>>
    /\ ledger = <<>>
    /\ req = [p \in Procs |-> NoReq]
    /\ started = 0
    /\ last = NoResp
    /\ clients = [wallets |-> {"w1"}, callers |-> Accounts, ops |-> AllOps,
                  amounts |-> {a \in Amounts : a > 0},
                  budget |-> MaxRequests, parallel |-> 2,
                  signed |-> {TRUE}, refs |-> Refs,
                  fresh |-> FALSE, seed |-> 0]
    /\ baseVer = <<>>
    /\ now = 0
    /\ redis = [n \in Nonces |-> NoKey]
    /\ aborted = {}
    /\ wire = NoWire

SpecPositive == InitPositive /\ [][Next]_vars

\* ------------------------------------------- handlers/admin/freezeWallet
\* freezeWallet: wallet.findUnique with its account, status check
freezeWalletUnchecked(p, w) ==
    Begin(p, "freeze", "admin", w, 0, "", 0, "", 0, 0, "")

freezeWalletOn(p, w) ==
    Begin(p, "freeze", "admin", w, 0, "", 0,
          IF accounts[Owner[w]] = "FROZEN" THEN "ALREADY_FROZEN" ELSE "",
          0, 0, "")

freezeWalletRead(p) == \E w \in clients.wallets : freezeWalletOn(p, w)

\* freezeWallet: account.update, a statement of its own
freezeWalletUpdate(p) ==
    /\ req[p].op = "freeze" /\ req[p].pc = "commit"
    /\ accounts' = [accounts EXCEPT ![Owner[req[p].wallet]] = "FROZEN"]
    /\ Respond(req, p, "OK")
    /\ UNCHANGED <<wallets, transactions, ledger, started, clients, baseVer,
                   guard, aborted>>

\* unfreezeWallet: wallet.findUnique with its account, status check
unfreezeWalletOn(p, w) ==
    Begin(p, "unfreeze", "admin", w, 0, "", 0,
          IF accounts[Owner[w]] = "ACTIVE" THEN "ALREADY_ACTIVE" ELSE "",
          0, 0, "")

unfreezeWalletRead(p) == \E w \in clients.wallets : unfreezeWalletOn(p, w)

\* unfreezeWallet: account.update, a statement of its own
unfreezeWalletUpdate(p) ==
    /\ req[p].op = "unfreeze" /\ req[p].pc = "commit"
    /\ accounts' = [accounts EXCEPT ![Owner[req[p].wallet]] = "ACTIVE"]
    /\ Respond(req, p, "OK")
    /\ UNCHANGED <<wallets, transactions, ledger, started, clients, baseVer,
                   guard, aborted>>

\* The owner of a funded wallet (one committed credit of 1) sends
\* well-formed authorize, debit and credit requests through the engine and
\* the route while an admin freezes, unfreezes and reverses.
InitFreeze ==
    /\ accounts = [a \in Accounts |-> "ACTIVE"]
    /\ wallets = [w \in Wallets |->
                    [balance |-> IF w = "w1" THEN 1 ELSE 0, version |-> 0]]
    /\ transactions = <<[walletId |-> "w1", type |-> "credit", amount |-> 1,
                         status |-> "completed", referenceId |-> "d0"]>>
    /\ ledger = <<[transactionId |-> 1, direction |-> "credit", amount |-> 1,
                   balanceBefore |-> 0, balanceAfter |-> 1]>>
    /\ req = [p \in Procs |-> NoReq]
    /\ started = 0
    /\ last = NoResp
    /\ clients = [wallets |-> {"w1"}, callers |-> {"a1"},
                  ops |-> MutatingOps \cup {"adminReverse", "freeze",
                                            "unfreeze"},
                  amounts |-> {a \in Amounts : a > 0},
                  budget |-> MaxRequests, parallel |-> 2,
                  signed |-> {TRUE}, refs |-> Refs,
                  fresh |-> FALSE, seed |-> 1]
    /\ baseVer = <<0>>
    /\ now = 0
    /\ redis = [n \in Nonces |-> NoKey]
    /\ aborted = {}
    /\ wire = NoWire

NextFreeze ==
    \E p \in Procs :
        \/ authorizeBegin(p)
        \/ authorizeCommit(p)
        \/ debitBegin(p)
        \/ debitCommit(p)
        \/ creditBegin(p)
        \/ creditCommit(p)
        \/ adminReverseBegin(p)
        \/ adminReverseCommit(p)
        \/ idempotency(p)
        \/ hAuthorizeRead(p)
        \/ hAuthorizeCommit(p)
        \/ hDebitRead(p)
        \/ hDebitCommit(p)
        \/ hCreditRead(p)
        \/ hCreditCommit(p)
        \/ freezeWalletRead(p)
        \/ freezeWalletUpdate(p)
        \/ unfreezeWalletRead(p)
        \/ unfreezeWalletUpdate(p)

SpecFreeze == InitFreeze /\ [][NextFreeze]_vars

\* --------------------------------------------------- middleware/signature
\* redis.get: the key is there until it expires
redisGet(key) == redis[key].expires > now

\* redis.set without PX: the key never expires
redisSetNoExpiry(key, ttl) ==
    [redis EXCEPT ![key] = [expires |-> MaxTime + ttl + 1, setAt |-> now]]

\* redis.set(key, "1", "PX", ttl): the key expires ttl after now
redisSet(key, ttl) ==
    [redis EXCEPT ![key] = [expires |-> now + ttl, setAt |-> now]]

\* the freshness check without Math.abs: only old requests expire
ExpiredPastOnly(timestamp) == now - timestamp > SignatureTtl

\* Math.abs(now - Number(timestamp)) > ttl
Expired(timestamp) ==
    (IF now >= timestamp THEN now - timestamp ELSE timestamp - now)
        > SignatureTtl

\* signature, up to the nonce lookup: headers, version, timestamp,
\* redis.get.  complete: the four headers are there; sig: the signature
\* sent is the HMAC of the request.
signatureOn(p, complete, version, timestamp, nonce, sig) ==
    /\ Accepts(p, "signature")
    /\ started' = started + 1
    /\ LET rq == [req EXCEPT ![p] = [NoReq EXCEPT !.op = "signature",
                                         !.nonce = nonce, !.sig = sig]]
           e1 == IF ~complete THEN "Missing signature headers" ELSE ""
           e2 == IF e1 # "" THEN e1
                 ELSE IF version # "v1" THEN "Unsupported signature version"
                 ELSE ""
           e3 == IF e2 # "" THEN e2
                 ELSE IF Expired(timestamp) THEN "Request expired" ELSE ""
           e4 == IF e3 # "" THEN e3
                 ELSE IF redisGet(nonce) THEN "Replay detected" ELSE ""
       IN  IF e4 # "" THEN Respond(rq, p, e4)
           ELSE /\ req' = [rq EXCEPT ![p].pc = "commit"]
                /\ last' = last
    /\ UNCHANGED <<store, clients, baseVer, guard, aborted>>

\* a request reaches the signature middleware
signature(p) ==
    \E complete \in BOOLEAN, version \in {"v1", "v2"},
       timestamp \in 0..MaxTime, nonce \in Nonces, sig \in clients.signed :
      signatureOn(p, complete, version, timestamp, nonce, sig)

\* signature comparing the HMAC first and storing the nonce of a request
\* it lets through
signatureVerifyFirst(p) ==
    /\ req[p].op = "signature" /\ req[p].pc = "commit"
    /\ redis' = IF req[p].sig THEN redisSet(req[p].nonce, SignatureTtl)
                ELSE redis
    /\ Respond(req, p, IF req[p].sig THEN "next" ELSE "Invalid signature")
    /\ UNCHANGED <<store, started, clients, baseVer, now, aborted, wire>>

\* signature, after the lookup: redis.set, then the HMAC comparison
signatureVerify(p) ==
    /\ req[p].op = "signature" /\ req[p].pc = "commit"
    /\ redis' = redisSet(req[p].nonce, SignatureTtl)
    /\ Respond(req, p, IF req[p].sig THEN "next" ELSE "Invalid signature")
    /\ UNCHANGED <<store, started, clients, baseVer, now, aborted, wire>>

\* time passes
Tick ==
    /\ now < MaxTime
    /\ now' = now + 1
    /\ UNCHANGED <<store, req, started, last, clients, baseVer, redis,
                   aborted, wire>>

\* Requests with and without a valid signature are sent to the signature
\* middleware and to POST /credit while time passes.
InitSignature ==
    /\ accounts = [a \in Accounts |-> "ACTIVE"]
    /\ wallets = [w \in Wallets |-> [balance |-> 0, version |-> 0]]
    /\ transactions = <<>>
    /\ ledger = <<>>
    /\ req = [p \in Procs |-> NoReq]
    /\ started = 0
    /\ last = NoResp
    /\ clients = [wallets |-> {"w1"}, callers |-> {"a1"},
                  ops |-> {"signature", "hCredit"},
                  amounts |-> {a \in Amounts : a > 0},
                  budget |-> MaxRequests, parallel |-> 2,
                  signed |-> BOOLEAN, refs |-> Refs,
                  fresh |-> FALSE, seed |-> 0]
    /\ baseVer = <<>>
    /\ now = 0
    /\ redis = [n \in Nonces |-> NoKey]
    /\ aborted = {}
    /\ wire = NoWire

NextSignature ==
    \/ Tick
    \/ \E p \in Procs :
          \/ signature(p)
          \/ signatureVerify(p)
          \/ idempotency(p)
          \/ hCreditRead(p)
          \/ hCreditCommit(p)

SpecSignature == InitSignature /\ [][NextSignature]_vars

\* The signature middleware alone: signed requests with any headers arrive
\* while time passes.
InitGuard ==
    /\ accounts = [a \in Accounts |-> "ACTIVE"]
    /\ wallets = [w \in Wallets |-> [balance |-> 0, version |-> 0]]
    /\ transactions = <<>>
    /\ ledger = <<>>
    /\ req = [p \in Procs |-> NoReq]
    /\ started = 0
    /\ last = NoResp
    /\ clients = [wallets |-> {"w1"}, callers |-> {"a1"},
                  ops |-> {"signature"},
                  amounts |-> {a \in Amounts : a > 0},
                  budget |-> MaxRequests, parallel |-> 2,
                  signed |-> BOOLEAN, refs |-> Refs,
                  fresh |-> FALSE, seed |-> 0]
    /\ baseVer = <<>>
    /\ now = 0
    /\ redis = [n \in Nonces |-> NoKey]
    /\ aborted = {}
    /\ wire = NoWire

NextGuard ==
    \/ Tick
    \/ \E p \in Procs :
          \/ signature(p)
          \/ signatureVerify(p)

SpecGuard == InitGuard /\ [][NextGuard]_vars

\* ------------------------------------------- utlis/canonicalJson and HMAC
\* the keys of the bodies below, in the order Array.prototype.sort() puts
\* them (UTF-16 code units)
KeyOrder == <<"0", "1", "a", "b", "o">>
Rank(k) == CHOOSE i \in 1..Len(KeyOrder) : KeyOrder[i] = k

\* Object.keys(obj).sort().reduce(...): the members by ascending key
SortedMembers(m) ==
    [i \in 1..Len(m) |->
        CHOOSE e \in {m[j] : j \in 1..Len(m)} :
            Cardinality({j \in 1..Len(m) : Rank(m[j].k) < Rank(e.k)}) = i - 1]

\* JSON.stringify: members and items in the order they are held
RECURSIVE stringify(_)
RECURSIVE stringifyList(_, _, _)
stringifyList(m, i, keyed) ==
    IF i > Len(m) THEN ""
    ELSE (IF i > 1 THEN "," ELSE "")
         \o (IF keyed THEN "\"" \o m[i].k \o "\":" ELSE "")
         \o stringify(m[i].v)
         \o stringifyList(m, i + 1, keyed)
stringify(v) ==
    IF v.t = "num" THEN ToString(v.n)
    ELSE IF v.t = "obj" THEN "{" \o stringifyList(v.m, 1, TRUE) \o "}"
    ELSE "[" \o stringifyList(v.m, 1, FALSE) \o "]"

\* canonicalJson: "" for what is not an object; otherwise the own keys,
\* sorted, are copied into a fresh object, which is stringified.  Members
\* of nested objects stay in their order, and an array comes out as the
\* object of its indices.
canonicalJson(obj) ==
    IF obj.t \notin {"obj", "arr"} THEN ""
    ELSE stringify(Obj(SortedMembers(obj.m)))

\* [METHOD, originalUrl, timestamp, nonce, canonicalJson(body)].join("|")
payload(r) ==
    r.method \o "|" \o r.url \o "|" \o r.timestamp \o "|" \o r.nonce
        \o "|" \o canonicalJson(r.body)

\* crypto.createHmac("sha256", secret).update(payload).digest(): a value
\* that determines, and is determined by, the secret and the payload
createHmac(secret, data) == <<secret, data>>

REQUEST_SIGNING_SECRET == "secret"

\* bodies a client may send
BodyAB == Obj(<<Member("a", Num(1)), Member("b", Num(2))>>)
BodyBA == Obj(<<Member("b", Num(2)), Member("a", Num(1))>>)
BodyValue == Obj(<<Member("a", Num(1)), Member("b", Num(3))>>)
BodyNested == Obj(<<Member("o", BodyAB)>>)
BodyNestedSwapped == Obj(<<Member("o", BodyBA)>>)
BodyArray == Arr(<<Num(1), Num(2)>>)
BodyArraySwapped == Arr(<<Num(2), Num(1)>>)
BodyIndexed == Obj(<<Member("0", Num(1)), Member("1", Num(2))>>)
BodyList == Obj(<<Member("a", BodyArray)>>)
BodyListSwapped == Obj(<<Member("a", BodyArraySwapped)>>)
Bodies == {BodyAB, BodyBA, BodyValue, BodyNested, BodyNestedSwapped,
           BodyArray, BodyArraySwapped, BodyIndexed, BodyList,
           BodyListSwapped}

Requests ==
    {Request(method, url, ToString(timestamp), nonce, body) :
        method \in {"POST", "GET"}, url \in {"/credit", "/debit"},
        timestamp \in 0..1, nonce \in Nonces, body \in Bodies}

\* the fields in which two requests differ
Differing(r1, r2) ==
    {f \in {"method", "url", "timestamp", "nonce", "body"} : r1[f] # r2[f]}

\* signature, the HMAC comparison: expected is computed over the request
\* that arrived, provided is what the client computed over the request it
\* signed with the shared secret
signatureCompare ==
    /\ started = 0
    /\ started' = 1
    /\ LET expected == createHmac(REQUEST_SIGNING_SECRET, payload(wire.sent))
           provided == createHmac(REQUEST_SIGNING_SECRET,
                                  payload(wire.signed))
       IN  last' = [NoResp EXCEPT !.code = IF provided = expected THEN "next"
                                           ELSE "Invalid signature"]
    /\ UNCHANGED <<store, req, clients, baseVer, now, redis, aborted, wire>>

\* A client signs a request; the request that arrives is that one, or
\* differs from it in one field.
InitHmac ==
    /\ accounts = [a \in Accounts |-> "ACTIVE"]
    /\ wallets = [w \in Wallets |-> [balance |-> 0, version |-> 0]]
    /\ transactions = <<>>
    /\ ledger = <<>>
    /\ req = [p \in Procs |-> NoReq]
    /\ started = 0
    /\ last = NoResp
    /\ clients = [wallets |-> {"w1"}, callers |-> {"a1"},
                  ops |-> {"signature"},
                  amounts |-> {a \in Amounts : a > 0},
                  budget |-> MaxRequests, parallel |-> 2,
                  signed |-> BOOLEAN, refs |-> Refs,
                  fresh |-> FALSE, seed |-> 0]
    /\ baseVer = <<>>
    /\ now = 0
    /\ redis = [n \in Nonces |-> NoKey]
    /\ aborted = {}
    /\ \E r1, r2 \in Requests :
          /\ Cardinality(Differing(r1, r2)) <= 1
          /\ wire = [signed |-> r1, sent |-> r2]

SpecHmac == InitHmac /\ [][signatureCompare]_vars

\* Both accounts send well-formed requests for both wallets; a client may
\* pick a referenceId of the form the admin reversal generates.
InitWallets ==
    /\ accounts = [a \in Accounts |-> "ACTIVE"]
    /\ wallets = [w \in Wallets |-> [balance |-> 0, version |-> 0]]
    /\ transactions = <<>>
    /\ ledger = <<>>
    /\ req = [p \in Procs |-> NoReq]
    /\ started = 0
    /\ last = NoResp
    /\ clients = [wallets |-> Wallets, callers |-> Accounts, ops |-> AllOps,
                  amounts |-> {a \in Amounts : a > 0},
                  budget |-> MaxRequests, parallel |-> 2,
                  signed |-> {TRUE}, refs |-> {"r1", "REV-r1"},
                  fresh |-> FALSE, seed |-> 0]
    /\ baseVer = <<>>
    /\ now = 0
    /\ redis = [n \in Nonces |-> NoKey]
    /\ aborted = {}
    /\ wire = NoWire

SpecWallets == InitWallets /\ [][Next]_vars

\* ------------------------------------------------------------- properties
Finishes(p) == req[p].pc # "idle" /\ req'[p].pc = "idle"

\* a response is sent in this step: by a handler that was at work, or to a
\* request refused on arrival
Responds == \/ \E p \in Procs : Finishes(p)
            \/ started' # started /\ req' = req

WalletOf(e) == transactions[e.transactionId].walletId

Signed(w, e) == IF WalletOf(e) # w THEN 0
                ELSE IF e.direction = "credit" THEN e.amount
                ELSE 0 - e.amount

RECURSIVE SignedSum(_, _)
SignedSum(w, n) == IF n = 0 THEN 0
                   ELSE SignedSum(w, n - 1) + Signed(w, ledger[n])

EntriesOf(w) == {i \in 1..Len(ledger) : WalletOf(ledger[i]) = w}

\* C1: for every wallet, in every reachable state, the balance equals the
\* sum of the signed amounts of its ledger entries (credit +, debit -),
\* starting from 0.
Conservation ==
    \A w \in Wallets : wallets[w].balance = SignedSum(w, Len(ledger))

\* C2: no two committed balance mutations of one wallet read the wallet at
\* the same version: of two units of work with the same base version at
\* most one commits.
OneWinnerPerVersion ==
    \A i, j \in 1..Len(ledger) :
        (i < j /\ WalletOf(ledger[i]) = WalletOf(ledger[j]))
            => baseVer[i] # baseVer[j]

\* C3: a wallet's version equals the number of committed balance mutations
\* on it (one ledger entry each): it starts at 0 and every committed debit,
\* credit and admin reversal adds exactly 1.
VersionCountsMutations ==
    \A w \in Wallets : wallets[w].version = Cardinality(EntriesOf(w))

\* C4: a debit that repeats a committed debit (same wallet, amount and
\* referenceId, same caller) is rejected with a duplicate-reference error
\* and leaves the store unchanged.
DebitIdempotent ==
    [][(Responds /\ last'.replay)
           => (/\ last'.code \in {"DUPLICATE_REFERENCE", "CONFLICT"}
               /\ UNCHANGED store)]_vars

\* a duplicate-reference or conflict outcome: the service's and the
\* middleware's codes, and the store's own rejections, which the handlers
\* pass on as they are or as an internal error
ConflictCodes == {"DUPLICATE_REFERENCE", "CONFLICT", "P2002", "P2025",
                  "INTERNAL_SERVER_ERROR"}

\* C5: of two concurrent authorize / debit / credit requests with the same
\* referenceId only one commits: the request that is still in flight when
\* the other commits fails with a duplicate-reference or conflict outcome
\* and leaves the store unchanged.
SameReferenceOneWinner ==
    [][\A p \in Procs :
          (Finishes(p) /\ req[p].beaten)
              => (/\ last'.code \in ConflictCodes
                  /\ UNCHANGED store)]_vars

SuccessCodes == {"OK", "CREATED"}

EntriesFor(id) == {i \in 1..Len(ledger) : ledger[i].transactionId = id}

OneEntryPerMovement ==
    /\ \A id \in 1..Len(transactions) :
          Cardinality(EntriesFor(id)) =
              IF transactions[id].type \in {"debit", "credit", "reverse"}
              THEN 1 ELSE 0
    /\ \A i \in 1..Len(ledger) : ledger[i].transactionId \in 1..Len(transactions)

AllOrNothing ==
    \A p \in Procs :
        Finishes(p) =>
            /\ last'.code \notin SuccessCodes => UNCHANGED store
            /\ wallets' # wallets =>
                  /\ Len(transactions') = Len(transactions) + 1
                  /\ Len(ledger') = Len(ledger) + 1
                  /\ ledger'[Len(ledger')].transactionId = Len(transactions')

\* C6: every debit, credit and reverse transaction has exactly one ledger
\* entry, every balance change comes with its transaction and its ledger
\* entry, and a unit of work that fails leaves the store as it was.
Atomicity == []OneEntryPerMovement /\ [][AllOrNothing]_vars

\* C6 witness: a unit of work was aborted by the store at a write while a
\* committed movement with its ledger entry exists.
AtomicityWitness ==
    /\ last.code \in {"P2002", "P2025"}
    /\ \E id \in 1..Len(transactions) :
          transactions[id].type \in {"debit", "credit"}

DebitsCommitted ==
    Cardinality({i \in 1..Len(transactions) :
                    transactions[i].type = "debit"})

DebitAmount == CHOOSE a \in clients.amounts : TRUE

\* C7: N concurrent debits of a against balance B commit at most
\* floor(B / a) times, the balance is B - a * (committed debits) >= 0, and
\* every other debit fails with insufficient funds or a version conflict.
DebitsBounded ==
    /\ DebitsCommitted <= clients.seed \div DebitAmount
    /\ wallets["w1"].balance = clients.seed - DebitAmount * DebitsCommitted
    /\ wallets["w1"].balance >= 0
    /\ last.code \in {"", "OK", "INSUFFICIENT_FUNDS", "P2025"}

\* C7 witness: N * a > B, all N debits answered, floor(B / a) >= 1 of them
\* committed and the last one lost the race for the version.
DebitsBoundedWitness ==
    /\ NumDebits * DebitAmount > clients.seed
    /\ started = NumDebits
    /\ \A p \in Procs : Idle(p)
    /\ DebitsCommitted = clients.seed \div DebitAmount
    /\ DebitsCommitted >= 1
    /\ last.code = "P2025"

\* C8: every wallet's balance is >= 0 in every reachable state.
BalanceNonNegative == \A w \in Wallets : wallets[w].balance >= 0

AllowedTransitions == {<<"pending", "completed">>, <<"pending", "reversed">>,
                       <<"completed", "reversed">>}

StatusStep ==
    /\ Len(transactions') >= Len(transactions)
    /\ \A id \in 1..Len(transactions) :
          transactions'[id].status # transactions[id].status
              => <<transactions[id].status, transactions'[id].status>>
                     \in AllowedTransitions

ReversalGuarded ==
    \A p \in Procs :
        (req[p].pc = "commit" /\ req[p].op \in ReverseOps \cup {"adminReverse"})
            => req[p].snapStatus \in {"pending", "completed"}

\* C9: a transaction's status changes only along pending -> completed,
\* pending -> reversed, completed -> reversed, and a reversal reaches its
\* write only from a status it read as reversible; any other is refused.
StatusMachine == []ReversalGuarded /\ [][StatusStep]_vars

\* C9 witness: a transaction has been reversed and a further reversal of it
\* was refused.
StatusMachineWitness ==
    /\ \E id \in 1..Len(transactions) : transactions[id].status = "reversed"
    /\ last.code \in {"ALREADY_REVERSED", "TRANSACTION_NOT_PENDING"}

\* C10: a self-service reverse of a transaction that is completed or
\* reversed fails and leaves the transaction's status and the wallet's
\* balance unchanged.
ReverseOnlyPending ==
    [][\A p \in Procs :
          (/\ Finishes(p)
           /\ req[p].op \in ReverseOps
           /\ TargetStatus(req[p]) \in {"completed", "reversed"})
              => (/\ last'.code \notin SuccessCodes
                  /\ UNCHANGED <<wallets, transactions>>)]_vars

\* the caller's account holds a pending transaction with this referenceId
PendingOwned(acct, ref) ==
    \E i \in findByReferenceTx(transactions, ref) :
        /\ Owner[transactions[i].walletId] = acct
        /\ transactions[i].status = "pending"

\* C11: a reverse sent to POST /reverse for a pending transaction of the
\* caller's account is admitted by the route, and when it ends it answers
\* OK with the status reversed and wallets and ledger unchanged.
RoutedReverseSucceeds ==
    [][\A p \in Procs :
          /\ \A acct \in Accounts, ref \in Refs :
                (/\ PendingOwned(acct, ref)
                 /\ idempotencyOn(p, "hReverse", acct, "w1", 0, ref))
                    => req'[p].pc = "read"
          /\ (/\ Finishes(p)
              /\ req[p].op = "hReverse"
              /\ req[p].pc = "commit"
              /\ req[p].snapStatus = "pending")
                 => (/\ last'.code = "OK"
                     /\ transactions'[req[p].target].status = "reversed"
                     /\ UNCHANGED <<wallets, ledger>>)]_vars

Inverse(type) == IF type = "debit" THEN "credit" ELSE "debit"

\* what a successful admin reversal of transaction t leaves, except for the
\* balance: t reversed, one compensating transaction, one inverse entry,
\* the version one higher
ReversalRecords(r) ==
    LET t == transactions[r.target]
        n == Len(transactions')
        e == ledger'[Len(ledger')]
    IN  /\ transactions'[r.target] = [t EXCEPT !.status = "reversed"]
        /\ n = Len(transactions) + 1
        /\ transactions'[n] =
               [walletId |-> t.walletId, type |-> "reverse",
                amount |-> t.amount, status |-> "completed",
                referenceId |-> "REV-" \o t.referenceId]
        /\ Len(ledger') = Len(ledger) + 1
        /\ e.transactionId = n
        /\ e.direction = Inverse(t.type)
        /\ e.amount = t.amount
        /\ wallets'[t.walletId].version = wallets[t.walletId].version + 1

\* the balance moves by the inverse of t's amount
ReversalDelta(r) ==
    LET t == transactions[r.target]
    IN  wallets'[t.walletId].balance =
           wallets[t.walletId].balance
             + (IF t.type = "debit" THEN t.amount ELSE 0 - t.amount)

\* handler p ends a successful admin reversal of a completed debit or credit
AdminReverses(p) ==
    /\ Finishes(p)
    /\ req[p].op = "adminReverse"
    /\ last'.code = "OK"
    /\ transactions[req[p].target].status = "completed"
    /\ transactions[req[p].target].type \in {"debit", "credit"}

\* C12: a successful admin reversal of a completed debit or credit T sets
\* T to reversed, adds one transaction (reverse, completed, T's amount,
\* "REV-" + T's referenceId) and one ledger entry in the inverse direction,
\* and moves the balance by the inverse of T's amount with the version one
\* higher, in a single step.
AdminReversalEffect ==
    [][\A p \in Procs :
          AdminReverses(p) => (ReversalRecords(req[p]) /\ ReversalDelta(req[p]))]_vars

EntryOfTx(id) == CHOOSE i \in EntriesFor(id) : TRUE

\* ledger entry i continues the wallet's history: the balance its unit of
\* work read is the one the wallet's previous entry left (0 for the first)
Chained(i) ==
    LET w == WalletOf(ledger[i])
        prev == {j \in EntriesOf(w) : j < i}
    IN  ledger[i].balanceBefore =
           IF prev = {} THEN 0
           ELSE ledger[CHOOSE j \in prev : \A k \in prev : k <= j].balanceAfter

\* nothing else moved the wallet from the start of T's unit of work until
\* now: T's entry continues the history and is the newest entry
Isolated(id) ==
    /\ EntriesFor(id) # {}
    /\ EntryOfTx(id) = Len(ledger)
    /\ Chained(EntryOfTx(id))

\* C13: when nothing else moved the wallet in between, the admin reversal
\* of a committed debit (credit) leaves the balance the wallet had before
\* that debit (credit).
RoundTrip ==
    [][\A p \in Procs :
          (AdminReverses(p) /\ Isolated(req[p].target))
              => wallets'[req[p].wallet].balance =
                     ledger[EntryOfTx(req[p].target)].balanceBefore]_vars

\* C13 witness: a debit that took a positive balance down has been
\* reversed by the admin and the wallet is back at the balance before it.
RoundTripWitness ==
    \E id \in 1..Len(transactions) :
        /\ transactions[id].type = "debit"
        /\ transactions[id].status = "reversed"
        /\ Len(transactions) > id
        /\ transactions[Len(transactions)].referenceId =
               "REV-" \o transactions[id].referenceId
        /\ ledger[EntryOfTx(id)].balanceBefore >= 1
        /\ ledger[EntryOfTx(id)].balanceAfter
               < ledger[EntryOfTx(id)].balanceBefore
        /\ wallets[transactions[id].walletId].balance =
               ledger[EntryOfTx(id)].balanceBefore

\* C14: no authorize, debit or credit ends in success while the account
\* that owns the wallet is FROZEN, whether the freeze came before the
\* request or while it was in flight; only the admin reversal may.
FrozenBlocksMutations ==
    [][\A p \in Procs :
          (/\ Finishes(p)
           /\ req[p].op \in MutatingOps
           /\ last'.code \in SuccessCodes)
              => accounts[Owner[req[p].wallet]] # "FROZEN"]_vars

\* handler p is past the replay check with nonce n
PastReplayCheck(p, n) ==
    req[p].op = "signature" /\ req[p].pc = "commit" /\ req[p].nonce = n

\* C15: of the requests with one nonce that are processed at the same
\* time, at most one passes the replay check.
NonceOnce ==
    \A p, q \in Procs, n \in Nonces :
        (PastReplayCheck(p, n) /\ PastReplayCheck(q, n)) => p = q

\* the nonce was consumed (its key set) less than the TTL ago
Consumed(n) ==
    redis[n].expires # 0 /\ now < redis[n].setAt + SignatureTtl

\* the nonce was consumed and the TTL has elapsed since
Lapsed(n) ==
    redis[n].expires # 0 /\ now >= redis[n].setAt + SignatureTtl

\* C16: a request with complete headers and a valid timestamp whose nonce
\* was consumed less than the TTL ago is answered "Replay detected",
\* whatever its signature; once the TTL has elapsed a request with that
\* nonce and a fresh timestamp passes the replay check, and with a valid
\* signature it is passed on.
NonceLifetime ==
    [][\A p \in Procs, n \in Nonces :
          /\ \A ts \in 0..MaxTime, sg \in BOOLEAN :
                (/\ Consumed(n)
                 /\ ~Expired(ts)
                 /\ signatureOn(p, TRUE, "v1", ts, n, sg))
                    => (req'[p].pc = "idle" /\ last'.code = "Replay detected")
          /\ \A sg \in BOOLEAN :
                (Lapsed(n) /\ signatureOn(p, TRUE, "v1", now, n, sg))
                    => PastReplayCheck(p, n)'
          /\ (PastReplayCheck(p, n) /\ Finishes(p) /\ req[p].sig)
                 => last'.code = "next"]_vars

\* C16 witness: a replay was answered "Replay detected" and, the TTL of
\* the nonce's key having elapsed, a later request with the same nonce is
\* past the replay check.
NonceLifetimeWitness ==
    /\ last.code = "Replay detected"
    /\ \E p \in Procs, n \in Nonces : PastReplayCheck(p, n) /\ Lapsed(n)

RoutedOps == {"hAuthorize", "hDebit", "hCredit", "hReverse"}

\* C17: a request sent to a transaction route without a valid signature
\* changes no wallet, transaction or ledger row.
SignedBeforeEngine ==
    [][\A p \in Procs :
          (Finishes(p) /\ req[p].op \in RoutedOps /\ ~req[p].sig)
              => UNCHANGED store]_vars

AuthorizeOps == {"authorize", "hAuthorize"}

\* C18: an authorize that succeeds adds one transaction, of type authorize
\* and status pending, for the request's wallet, amount and referenceId,
\* and changes nothing else: no wallet, no ledger entry, no other
\* transaction.
AuthorizeFrame ==
    [][\A p \in Procs :
          (/\ Finishes(p)
           /\ req[p].op \in AuthorizeOps
           /\ last'.code \in SuccessCodes)
              => (/\ transactions' = Append(transactions,
                        [walletId |-> req[p].wallet, type |-> "authorize",
                         amount |-> req[p].amount, status |-> "pending",
                         referenceId |-> req[p].ref])
                  /\ UNCHANGED <<accounts, wallets, ledger>>)]_vars

\* C18 witness: an authorize on a funded wallet has just succeeded; its
\* pending transaction is the newest and has no ledger entry.
AuthorizeFrameWitness ==
    /\ last.code \in SuccessCodes
    /\ Len(transactions) >= 2
    /\ transactions[Len(transactions)].type = "authorize"
    /\ transactions[Len(transactions)].status = "pending"
    /\ EntriesFor(Len(transactions)) = {}
    /\ wallets[transactions[Len(transactions)].walletId].balance >= 1

\* C19: every stored transaction has amount > 0.
AmountsPositive ==
    \A i \in 1..Len(transactions) : transactions[i].amount > 0

\* C20: no two transactions share a referenceId, whatever their wallets
\* and types, the "REV-" transactions of admin reversals included.
ReferenceIdsUnique ==
    \A i, j \in 1..Len(transactions) :
        transactions[i].referenceId = transactions[j].referenceId => i = j

\* C20 witness: a client of one wallet holds the referenceId "REV-r1",
\* r1 is a transaction of the other wallet, and the unique index has just
\* refused an insert.
ReferenceIdsUniqueWitness ==
    /\ last.code = "P2002"
    /\ \E i, j \in 1..Len(transactions) :
          /\ transactions[i].referenceId = "r1"
          /\ transactions[j].referenceId = "REV-r1"
          /\ transactions[i].walletId # transactions[j].walletId

\* handler p ends a debit's unit of work in this step
DebitEnds(p) == req[p].op \in DebitOps /\ req[p].pc = "commit" /\ Finishes(p)

\* the request that arrives in this step is not answered as a duplicate
NotDuplicate(p) ==
    \/ req'[p].pc # "idle"
    \/ last'.code \notin {"DUPLICATE_REFERENCE", "CONFLICT"}

\* C21: a debit whose conditional wallet write finds the version changed
\* is not retried: it ends with the conflict and leaves no transaction, no
\* ledger entry and no balance change, so its referenceId stays unused;
\* a resubmission with that referenceId is not rejected as a duplicate,
\* and the debit is applied at most once.
NoRetryThenResubmit ==
    /\ [][\A p \in Procs :
            (DebitEnds(p) /\ wallets[req[p].wallet].version # req[p].snapVer)
                => (UNCHANGED store /\ last'.code = "P2025")]_vars
    /\ [][\A p \in Procs, w \in Wallets, amount \in Amounts \cup 1..MaxDebit,
             ref \in aborted :
            (/\ findByReferenceTx(transactions, ref) = {}
             /\ \/ debitOn(p, Owner[w], w, amount, ref)
                \/ idempotencyOn(p, "hDebit", Owner[w], w, amount, ref))
                => NotDuplicate(p)]_vars
    /\ [](\A ref \in aborted :
            Cardinality(findByReferenceTx(transactions, ref)) <= 1)

\* C21 witness: a debit sent again after a version conflict had aborted it
\* has just been applied under the same referenceId.
NoRetryThenResubmitWitness ==
    /\ last.code = "OK"
    /\ last.retry
    /\ \E ref \in aborted :
          \E i \in findByReferenceTx(transactions, ref) :
             /\ i = Len(transactions)
             /\ transactions[i].type = "debit"
             /\ transactions[i].status = "completed"

\* what the store raises, and the handlers' generic fallback
RawErrors == {"P2025", "P2002", "INTERNAL_SERVER_ERROR"}

\* C22: a version conflict or a unique-constraint violation inside a unit
\* of work reaches the caller as a domain error with a stable code, never
\* as the store's own error or a generic internal error.
ConflictsMapped == [][Responds => last'.code \notin RawErrors]_vars

\* transaction id is a completed credit larger than its wallet's balance
Unfunded(id) ==
    /\ transactions[id].type = "credit"
    /\ transactions[id].status = "completed"
    /\ wallets[transactions[id].walletId].balance < transactions[id].amount

\* C23: the admin reversal of a completed credit whose amount exceeds the
\* wallet's balance fails with INSUFFICIENT_FUNDS and leaves the original's
\* status, the wallet (balance and version), the transactions and the
\* ledger unchanged; no reversal of an unfunded credit ever commits.
UnfundedCreditReversal ==
    /\ [][\A p \in Procs, id \in 1..Len(transactions) :
            (Unfunded(id) /\ adminReverseOn(p, id))
                => /\ last'.code = "INSUFFICIENT_FUNDS"
                   /\ req'[p].pc = "idle"
                   /\ UNCHANGED store]_vars
    /\ [][\A p \in Procs :
            (/\ req[p].op = "adminReverse" /\ Finishes(p)
             /\ req[p].pc = "commit" /\ Unfunded(req[p].target))
                => (last'.code # "OK" /\ UNCHANGED store)]_vars

\* C23 witness: the reversal of the credit d0 of 1 was refused for funds
\* while the wallet held 0 (no other request of this scenario can be).
UnfundedCreditReversalWitness ==
    /\ last.code = "INSUFFICIENT_FUNDS"
    /\ Unfunded(1)
    /\ wallets["w1"] = [balance |-> 0, version |-> 1]
    /\ Len(transactions) = 2 /\ Len(ledger) = 2

\* the owner of an active account's wallet asks for a positive amount
WellFormed(acct, w, amount) ==
    /\ Owner[w] = acct
    /\ accounts[acct] = "ACTIVE"
    /\ amount > 0

\* the step refuses handler p's request for funds and writes nothing
RefusedForFunds(p) ==
    /\ last'.code = "INSUFFICIENT_FUNDS"
    /\ req'[p].pc = "idle"
    /\ UNCHANGED store

\* the ledger entry of a debit that takes the whole balance
FullDebitEntry(amount) ==
    [transactionId |-> Len(transactions) + 1, direction |-> "debit",
     amount |-> amount, balanceBefore |-> amount, balanceAfter |-> 0]

\* C24: a debit or authorize whose amount exceeds the balance read in its
\* unit of work fails with INSUFFICIENT_FUNDS and changes nothing; a debit
\* of exactly the balance passes the guards and, committed, leaves balance
\* 0 and the ledger entry (debit, amount, balanceBefore = amount,
\* balanceAfter = 0).
FundsBoundary ==
    /\ [][\A p \in Procs, w \in clients.wallets, amount \in clients.amounts,
             ref \in NextRefs :
            (/\ WellFormed(Owner[w], w, amount)
             /\ amount > wallets[w].balance
             /\ \/ debitOn(p, Owner[w], w, amount, ref)
                \/ authorizeOn(p, Owner[w], w, amount, ref))
                => RefusedForFunds(p)]_vars
    /\ [][\A p \in Procs :
            (/\ req[p].amount > wallets[req[p].wallet].balance
             /\ hDebitRead(p) \/ hAuthorizeRead(p))
                => RefusedForFunds(p)]_vars
    /\ [][\A p \in Procs, w \in clients.wallets, ref \in NextRefs :
            (/\ WellFormed(Owner[w], w, wallets[w].balance)
             /\ findByReferenceTx(transactions, ref) = {}
             /\ debitOn(p, Owner[w], w, wallets[w].balance, ref))
                => req'[p].pc = "commit"]_vars
    /\ [][\A p \in Procs :
            (/\ req[p].op = "hDebit" /\ req[p].amount > 0
             /\ req[p].amount = wallets[req[p].wallet].balance
             /\ hDebitRead(p))
                => req'[p].pc = "commit"]_vars
    /\ [][\A p \in Procs :
            (/\ DebitEnds(p)
             /\ req[p].snapBal = req[p].amount
             /\ req[p].snapVer = wallets[req[p].wallet].version
             /\ findByReferenceTx(transactions, req[p].ref) = {})
                => /\ last'.code = "OK"
                   /\ wallets'[req[p].wallet].balance = 0
                   /\ ledger' = Append(ledger, FullDebitEntry(req[p].amount))
           ]_vars

\* C24 witness: a debit took the whole balance, its ledger entry is the
\* last one, and a request for more than the 0 left has been refused.
FundsBoundaryWitness ==
    /\ last.code = "INSUFFICIENT_FUNDS"
    /\ wallets["w1"].balance = 0
    /\ Len(ledger) > 0
    /\ LET e == ledger[Len(ledger)]
       IN  /\ e.direction = "debit"
           /\ e.balanceBefore = e.amount
           /\ e.balanceAfter = 0
           /\ transactions[e.transactionId].type = "debit"

\* C25: ledger entries are write-once and append-only: every step leaves
\* each existing entry (direction, amount, balanceBefore, balanceAfter,
\* transaction link) as it was and in its place, and adds entries only at
\* the end.
LedgerAppendOnly ==
    [][/\ Len(ledger') >= Len(ledger)
       /\ SubSeq(ledger', 1, Len(ledger)) = ledger]_vars

\* C25 witness: the ledger holds two entries and the unit of work that
\* ended last was rolled back.
LedgerAppendOnlyWitness ==
    /\ Len(ledger) >= 2
    /\ last.code \in {"P2025", "P2002"}

\* the distance between two instants
Distance(a, b) == IF a >= b THEN a - b ELSE b - a

\* C26: a request with its four headers and version v1 is rejected as
\* expired exactly when |timestamp - now| > TTL, in the past as in the
\* future; with |timestamp - now| <= TTL it passes on to the nonce check.
FreshnessWindow ==
    [][\A p \in Procs, timestamp \in 0..MaxTime, nonce \in Nonces,
          sig \in BOOLEAN :
         signatureOn(p, TRUE, "v1", timestamp, nonce, sig)
            => IF Distance(timestamp, now) > SignatureTtl
               THEN req'[p].pc = "idle" /\ last'.code = "Request expired"
               ELSE \/ req'[p].pc = "commit"
                    \/ last'.code = "Replay detected"]_vars

\* C26 witness: a request was rejected as expired before the clock moved,
\* so its timestamp lay more than TTL in the future.
FreshnessWindowWitness ==
    /\ last.code = "Request expired"
    /\ now = 0

\* a JSON value with the members of every object, at every depth, by
\* ascending key; arrays keep their order
RECURSIVE DeepSort(_)
DeepSort(v) ==
    IF v.t = "num" THEN v
    ELSE LET inner == [i \in 1..Len(v.m) |->
                          Member(v.m[i].k, DeepSort(v.m[i].v))]
         IN  IF v.t = "obj" THEN Obj(SortedMembers(inner))
             ELSE [v EXCEPT !.m = inner]

\* two bodies that differ at most in the order of object keys
SameBody(b1, b2) == DeepSort(b1) = DeepSort(b2)

\* the request that arrived is not the one that was signed
Tampered ==
    \/ \E f \in {"method", "url", "timestamp", "nonce"} :
          wire.sent[f] # wire.signed[f]
    \/ ~SameBody(wire.sent.body, wire.signed.body)

\* C27: a request verified against the signature made over exactly that
\* request passes; a request that differs from the signed one in its
\* method, path, timestamp, nonce or body is answered "Invalid signature".
SignatureRoundTrip ==
    started = 1 =>
        /\ wire.sent = wire.signed => last.code = "next"
        /\ Tampered => last.code = "Invalid signature"

\* C28: two bodies that differ only in the order of object keys, at the
\* top level or inside nested objects, have the same canonical string;
\* bodies that differ in a value or in the order of an array do not.
CanonicalOrderInsensitive ==
    SameBody(wire.signed.body, wire.sent.body)
        <=> canonicalJson(wire.signed.body) = canonicalJson(wire.sent.body)

\* the step answers handler p's request with this code and writes nothing
Refused(p, code) ==
    /\ last'.code = code
    /\ req'[p].pc = "idle"
    /\ UNCHANGED store

\* the caller's account holds a transaction with this referenceId
OwnReference(acct, ref) ==
    \E i \in findByReferenceTx(transactions, ref) :
        Owner[transactions[i].walletId] = acct

\* C29: an authorize, debit or credit on a wallet of another account is
\* refused as not found and changes nothing; a self-service reverse of a
\* transaction on another account's wallet is refused with the code a
\* transaction id that does not exist gets, and changes nothing.
ForeignIsNotFound ==
    /\ [][\A p \in Procs, acct \in Accounts, w \in Wallets,
             amount \in clients.amounts, ref \in NextRefs :
            (/\ Owner[w] # acct
             /\ \/ authorizeOn(p, acct, w, amount, ref)
                \/ debitOn(p, acct, w, amount, ref)
                \/ creditOn(p, acct, w, amount, ref))
                => Refused(p, "WALLET_NOT_FOUND")]_vars
    /\ [][\A p \in Procs, acct \in Accounts,
             id \in 1..(Len(transactions) + 1) :
            (/\ id \in 1..Len(transactions)
                    => Owner[transactions[id].walletId] # acct
             /\ reverseOn(p, acct, id))
                => Refused(p, "TRANSACTION_NOT_FOUND")]_vars
    /\ [][\A p \in Procs, acct \in Accounts, w \in Wallets,
             amount \in clients.amounts, ref \in NextRefs,
             op \in {"hAuthorize", "hDebit", "hCredit"} :
            (/\ Owner[w] # acct
             /\ accounts[acct] = "ACTIVE"
             /\ ~OwnReference(acct, ref)
             /\ idempotencyOn(p, op, acct, w, amount, ref))
                => Refused(p, IF amount = 0 THEN "BAD_REQUEST"
                              ELSE "NOT_FOUND")]_vars
    /\ [][\A p \in Procs :
            (~OwnReference(req[p].acct, req[p].ref) /\ hReverseRead(p))
                => Refused(p, "NOT_FOUND")]_vars

\* C29 witness: a request for another account's wallet, which holds
\* transactions, has just been answered WALLET_NOT_FOUND.
ForeignIsNotFoundWitness ==
    /\ last.code = "WALLET_NOT_FOUND"
    /\ \A w \in Wallets :
          \E i \in 1..Len(transactions) : transactions[i].walletId = w

\* entries i < j of wallet w with no entry of w between them
Consecutive(w, i, j) ==
    /\ i \in EntriesOf(w) /\ j \in EntriesOf(w) /\ i < j
    /\ \A k \in EntriesOf(w) : ~(i < k /\ k < j)

\* C30: the ledger entries of a wallet form a chain in commit order: the
\* first starts at balance 0, each next one starts at the balance the
\* previous one ended with, and the last one ends at the wallet's balance.
LedgerChain ==
    \A w \in Wallets :
        /\ \A i, j \in 1..Len(ledger) :
              Consecutive(w, i, j)
                  => ledger[j].balanceBefore = ledger[i].balanceAfter
        /\ \A i \in EntriesOf(w) :
              /\ (\A k \in EntriesOf(w) : i <= k)
                    => ledger[i].balanceBefore = 0
              /\ (\A k \in EntriesOf(w) : k <= i)
                    => ledger[i].balanceAfter = wallets[w].balance

\* C31: every ledger entry is consistent in itself: balanceAfter is
\* balanceBefore - amount for a debit entry and balanceBefore + amount for
\* a credit entry, whether a debit, a credit or an admin reversal wrote it.
EntryConsistent ==
    \A i \in 1..Len(ledger) :
        ledger[i].balanceAfter =
            IF ledger[i].direction = "debit"
            THEN ledger[i].balanceBefore - ledger[i].amount
            ELSE ledger[i].balanceBefore + ledger[i].amount

\* C31 witness: the ledger holds the entry of a credit, of a debit and of
\* an admin reversal.
EntryConsistentWitness ==
    \A type \in {"credit", "debit", "reverse"} :
        \E i \in 1..Len(ledger) :
            transactions[ledger[i].transactionId].type = type

\* pending authorize transactions of wallet w
PendingOn(w) ==
    {i \in 1..Len(transactions) :
        /\ transactions[i].walletId = w
        /\ transactions[i].type = "authorize"
        /\ transactions[i].status = "pending"}

OnlyStatus(w, status) ==
    /\ accounts' = [accounts EXCEPT ![Owner[w]] = status]
    /\ UNCHANGED <<wallets, transactions, ledger>>

RowsKept ==
    [][/\ DOMAIN accounts' = DOMAIN accounts
       /\ DOMAIN wallets' = DOMAIN wallets
       /\ \A w \in DOMAIN wallets :
             DOMAIN wallets'[w] = {"balance", "version"}
       /\ Len(transactions') >= Len(transactions)
       /\ \A i \in 1..Len(transactions) :
             transactions'[i] =
                 [transactions[i] EXCEPT !.status = transactions'[i].status]
      ]_vars

\* C34 witness: the three kinds of update have happened: the account is
\* frozen, the wallet has been written under its version, and a
\* transaction has been reversed next to the compensating one.
RowsKeptWitness ==
    /\ accounts["a1"] = "FROZEN"
    /\ wallets["w1"].version > 0
    /\ \E i, j \in 1..Len(transactions) :
          /\ transactions[i].status = "reversed"
          /\ transactions[i].amount > 0
          /\ transactions[j].type = "reverse"

\* the compensating transactions of transaction i
ReversalsOf(i) ==
    findByReferenceTx(transactions, "REV-" \o transactions[i].referenceId)

\* what the credits and debits among the first n transactions that are not
\* reversed add up to on wallet w
RECURSIVE Standing(_, _)
Standing(w, n) ==
    IF n = 0 THEN 0
    ELSE Standing(w, n - 1)
         + (IF transactions[n].walletId # w
               \/ transactions[n].status # "completed"
            THEN 0
            ELSE IF transactions[n].type = "credit" THEN transactions[n].amount
            ELSE IF transactions[n].type = "debit"
                 THEN 0 - transactions[n].amount
            ELSE 0)

\* C35: a transaction is admin-reversed at most once, also by reversals
\* that run side by side: it has a compensating "REV-" transaction, with
\* one ledger entry, exactly when it is reversed, and never two; the
\* balance is what the transactions not reversed add up to; of the
\* reversals that read one wallet version the first to commit succeeds and
\* one that finds its wallet version changed ends in an error that writes
\* nothing.
ReversedOnce ==
    /\ [](\A i \in 1..Len(transactions) :
            transactions[i].type \in {"credit", "debit"} =>
                /\ Cardinality(ReversalsOf(i))
                       = (IF transactions[i].status = "reversed" THEN 1 ELSE 0)
                /\ \A j \in ReversalsOf(i) :
                      Cardinality({e \in 1..Len(ledger) :
                                      ledger[e].transactionId = j}) = 1)
    /\ [](\A w \in Wallets :
            wallets[w].balance = Standing(w, Len(transactions)))
    /\ [][\A p \in Procs :
            adminReverseCommit(p) =>
                IF req[p].snapVer = wallets[req[p].wallet].version
                THEN /\ last'.code = "OK"
                     /\ transactions[req[p].target].status = "completed"
                     /\ transactions'[req[p].target].status = "reversed"
                     /\ wallets'[req[p].wallet].balance =
                           reversalBalance(transactions[req[p].target].type,
                                           wallets[req[p].wallet].balance,
                                           req[p].amount)
                ELSE /\ last'.code = "P2025"
                     /\ UNCHANGED store]_vars

\* C35 witness: of two reversals of one debit that read it side by side
\* one has committed, so that the debit is reversed and its amount is back
\* on the wallet once, and the other is still to write.
ReversedOnceWitness ==
    /\ last.code = "OK"
    /\ \E i \in 1..Len(transactions) :
          /\ transactions[i].type = "debit"
          /\ transactions[i].status = "reversed"
          /\ wallets["w1"].balance = transactions[i].amount
          /\ Cardinality(ReversalsOf(i)) = 1
          /\ \E q \in Procs :
                /\ req[q].op = "adminReverse" /\ req[q].pc = "commit"
                /\ req[q].target = i
                /\ req[q].snapStatus = "completed"

ReversalRefTaken ==
    [][\A p \in Procs :
        (/\ adminReverseCommit(p)
         /\ transactions[req[p].target].status = "completed"
         /\ findByReferenceTx(transactions, "REV-" \o req[p].ref) # {})
            => /\ last'.code \in {"P2002", "P2025"}
               /\ transactions'[req[p].target].status = "completed"
               /\ wallets'[req[p].wallet] = wallets[req[p].wallet]
               /\ UNCHANGED store]_vars

\* C37 witness: a client's credit holds "REV-r1", the reversal of the
\* completed credit "r1" has just failed on the unique index (no other
\* request was under way), and both credits are on the wallet.
ReversalRefTakenWitness ==
    /\ last.code = "P2002"
    /\ clients.parallel = 1
    /\ \E i, j \in 1..Len(transactions) :
          /\ transactions[i].referenceId = "r1"
          /\ transactions[i].status = "completed"
          /\ transactions[j].referenceId = "REV-r1"
          /\ transactions[j].type = "credit"
          /\ transactions[j].walletId = transactions[i].walletId
          /\ wallets[transactions[i].walletId].balance
                = transactions[i].amount + transactions[j].amount

\* a debit that has passed its guards holds version v of wallet w, which
\* is still the wallet's version
Contends(w, v) ==
    /\ wallets[w].version = v
    /\ \E p \in Procs :
          /\ req[p].op \in DebitOps /\ req[p].pc = "commit"
          /\ req[p].wallet = w /\ req[p].snapVer = v

\* C38: progress under contention: debits that passed their guards do
\* not hold the current version of a wallet for ever, and they stop
\* holding it only because the version has moved on, that is, because one
\* of them has committed; every request under way is answered in the end;
\* and a debit has lost on the version only where another write has
\* committed.
DebitProgress ==
    /\ \A w \in Wallets, v \in 0..NumDebits : []<>(~Contends(w, v))
    /\ [][\A w \in Wallets, v \in 0..NumDebits :
            (Contends(w, v) /\ ~Contends(w, v)') => wallets'[w].version > v
         ]_vars
    /\ \A p \in Procs : []<>Idle(p)
    /\ [](aborted # {} => \E w \in Wallets : wallets[w].version > 0)

\* C38 witness: NumDebits debits read the wallet at one version; one has
\* committed, the others have lost, and every request has been answered.
DebitProgressWitness ==
    /\ started = NumDebits
    /\ \A p \in Procs : Idle(p)
    /\ wallets["w1"].version = 1
    /\ Cardinality(aborted) = NumDebits - 1
    /\ last.code = "P2025"

\* the answers given before the nonce store is looked at
EarlyRefusals == {"Missing signature headers",
                  "Unsupported signature version", "Request expired"}

\* C39: the nonce is stored before the signature is compared: a request
\* that got past the headers, version, freshness and replay checks and
\* whose signature is wrong is answered "Invalid signature" with its nonce
\* stored for the TTL; a complete, fresh, correctly signed v1 request
\* whose nonce is in the store is answered "Replay detected"; and no
\* refusal on arrival changes the nonce store.
NonceBeforeSignature ==
    [][/\ \A p \in Procs :
             (signatureVerify(p) /\ ~req[p].sig) =>
                 /\ last'.code = "Invalid signature"
                 /\ redis'[req[p].nonce].expires = now + SignatureTtl
                 /\ redis'[req[p].nonce].expires > now
       /\ \A p \in Procs, timestamp \in 0..MaxTime, nonce \in Nonces :
             (/\ redisGet(nonce)
              /\ ~Expired(timestamp)
              /\ signatureOn(p, TRUE, "v1", timestamp, nonce, TRUE))
                 => last'.code = "Replay detected" /\ req'[p].pc = "idle"
       /\ (started' # started /\ last'.code \in EarlyRefusals
              /\ \A p \in Procs : req'[p].pc = "idle")
             => redis' = redis
      ]_vars

\* C39 witness: the only request so far had a wrong signature and was
\* answered so; time has passed and its nonce is still in the store.
NonceBeforeSignatureWitness ==
    /\ started = 1
    /\ last.code = "Invalid signature"
    /\ \E n \in Nonces : redisGet(n) /\ redis[n].setAt < now

\* the operations a caller runs on the wallets of their account
CallerOps == MutatingOps \cup ReverseOps

\* the transactions of wallet w, by id
RowsOf(txs, w) == {<<i, txs[i]>> : i \in {k \in 1..Len(txs) : txs[k].walletId = w}}

\* the ledger entries of wallet w, by position
LinesOf(txs, ls, w) ==
    {<<i, ls[i]>> : i \in {k \in 1..Len(ls) :
                               txs[ls[k].transactionId].walletId = w}}

\* wallet w is as it was: balance, version, transactions, ledger entries
Untouched(w) ==
    /\ wallets'[w] = wallets[w]
    /\ RowsOf(transactions', w) = RowsOf(transactions, w)
    /\ LinesOf(transactions', ledger', w) = LinesOf(transactions, ledger, w)

\* C40: an authorize, debit, credit or reverse that a caller of one
\* account brings to its end leaves every wallet of another account as it
\* was (balance, version, transactions, ledger entries), and leaves the
\* balance and version of every wallet but the one it works on.
AccountsApart ==
    [][\A p \in Procs :
        (req[p].op \in CallerOps /\ Finishes(p)) =>
            \A w \in Wallets :
                /\ Owner[w] # req[p].acct => Untouched(w)
                /\ w # req[p].wallet => wallets'[w] = wallets[w]]_vars

\* C40 witness: a caller's operation has just committed on a wallet of
\* their own while the wallet of the other account holds funds and a
\* transaction of its own.
AccountsApartWitness ==
    /\ last.code = "OK"
    /\ Len(transactions) > 1
    /\ LET t == transactions[Len(transactions)]
       IN  /\ t.type \in {"authorize", "debit", "credit"}
           /\ \E w \in Wallets :
                 /\ Owner[w] # Owner[t.walletId]
                 /\ wallets[w].balance > 0
                 /\ RowsOf(transactions, w) # {}
====
